---- MODULE Spec2Model ----
(***************************************************************************)
(* A model of the two subsystems of qg_botsdk:                             *)
(*   - the request layer, qg_botsdk/http.py (class Session), checked       *)
(*     under the specification HttpSpec;                                   *)
(*   - the gateway connection, qg_botsdk/qg_bot_ws.py (class BotWs),       *)
(*     checked under the specification Spec.                               *)
(***************************************************************************)
EXTENDS Integers, Sequences, FiniteSets

VARIABLES
    \* ---- request layer (http.py) ----
    is_retry,         \* Session._is_retry
    is_log_error,     \* Session._is_log_error
    max_concurrency,  \* the N handed to Queue(max_concurrency)
    task,             \* per submitted call: the state of its _request coroutine
    \* ---- gateway connection (qg_bot_ws.py) ----
    is_async,         \* BotWs.is_async: the user callbacks are coroutines
    is_filter_self,   \* BotWs.is_filter_self
    msg_treat,        \* BotWs.msg_treat
    pc,               \* where BotWs.starter / BotWs.connect stands
    in_loop,          \* the running attempt was started by starter's while loop
    running,          \* BotWs.running
    re_connect,       \* BotWs.re_connect (the spec's may_resume)
    reconnect_times,  \* BotWs.reconnect_times (the spec's reconnect_attempts)
    session_id,       \* BotWs.session_id
    s,                \* BotWs.s (the spec's last_sequence)
    flag,             \* BotWs.flag: a READY was seen
    robot,            \* BotWs.robot
    op9_flag,         \* BotWs.op9_flag
    heartbeat,        \* BotWs.heartbeat, and the tasks named heartbeat_task
    heartbeat_time,   \* BotWs.heartbeat_time, in milliseconds
    cb,               \* the user callback the receive loop is inside of
    pool,             \* what was submitted to BotWs.threads, oldest first
    async_tasks,      \* callback tasks created on the event loop, not yet run
    \* ---- observations of the gateway's last step ----
    in_frame,         \* the message the last step received
    out,              \* the frames the last step sent
    consec9,          \* the previous frame of this attempt was an op 9
    at_limit,         \* reconnect_times >= 20 held when the loop started this attempt
    fetch_calls,      \* calls of get_robot_info made by main
    start_calls,      \* invocations of on_start_function
    id_reqs           \* GET /users/@me requests made by the last step

httpvars == <<is_retry, is_log_error, max_concurrency, task>>

botvars == <<running, re_connect, reconnect_times, session_id, s, flag, robot,
             op9_flag, heartbeat, heartbeat_time>>

\* the constructor arguments the handlers branch on
cfgvars == <<is_async, is_filter_self, msg_treat>>

gwvars == <<cfgvars, pc, in_loop, botvars, cb, pool, async_tasks, in_frame, out,
            consec9, at_limit, fetch_calls, start_calls, id_reqs>>

vars == <<httpvars, gwvars>>

(***************************************************************************)
(* Bounds of the request-layer model.                                      *)
(***************************************************************************)
\* size of the submission burst
NumCalls == 3
\* largest configured max_concurrency
MaxN == 2
\* cap on the HTTP requests counted per call
MaxReq == 3

Calls == 1..NumCalls

(***************************************************************************)
(* HTTP responses: ok is resp.ok, ctype is the content-type header, and    *)
(* the body is described by what resp.json() decodes to: a mapping or not, *)
(* and its "code" member: {} when absent, {n} when it is n.                *)
(***************************************************************************)
NoCode == {}

\* _utils.retry_err_code is not under src/; the spec calls it an externally
\* supplied set and names 11298 as a member.
retry_err_code == {11298}

JsonType == "application/json"

Responses ==
    {[ok |-> TRUE, ctype |-> JsonType, is_dict |-> TRUE, code |-> NoCode]}
    \cup [ok : {FALSE}, ctype : {JsonType}, is_dict : {TRUE}, code : {NoCode, {11298}, {304023}}]
    \cup [ok : {FALSE}, ctype : {JsonType}, is_dict : {FALSE}, code : {NoCode}]
    \cup [ok : {FALSE}, ctype : {"text/html"}, is_dict : {FALSE}, code : {NoCode}]

\* the state of a call before it is submitted
IdleTask ==
    [st |-> "idle", slot |-> FALSE, flying |-> FALSE, retry |-> FALSE,
     nreq |-> 0, resps |-> <<>>, ret |-> 0, warns |-> 0]

InSlot   == {c \in Calls : task[c].slot}
InFlight == {c \in Calls : task[c].flying}

(***************************************************************************)
(* Queue (qg_botsdk/_queue.py) is not under src/: its admission rule is    *)
(* taken from the spec, "at most N tasks may be executing at any instant,  *)
(* additional submissions wait until a slot frees".                        *)
(***************************************************************************)
QueueAdmits == Cardinality(InSlot) < max_concurrency

\* Session.__getattr__.wrap: self._queue.create_task(self._request, item, ...)
Submit(c) ==
    /\ task[c].st = "idle"
    /\ task' = [task EXCEPT ![c].st = "queued"]
    /\ UNCHANGED <<is_retry, is_log_error, max_concurrency, gwvars>>

\* The queue starts the task: _request(method, url, retry=False) runs up to
\* "resp = await self._session.request(...)", the request is in flight.
StartTask(c) ==
    /\ task[c].st = "queued"
    /\ QueueAdmits
    /\ task' = [task EXCEPT ![c] = [@ EXCEPT !.st = "exec", !.slot = TRUE,
                                              !.flying = TRUE, !.retry = FALSE,
                                              !.nreq = 1]]
    /\ UNCHANGED <<is_retry, is_log_error, max_concurrency, gwvars>>

\* http.py:163  if self._is_log_error and (not self._is_retry or retry)
LogsFirst(retry) == is_log_error /\ (~is_retry \/ retry)

ShouldRetryUnguarded(retry) == is_retry

\* http.py:165  if self._is_retry and not retry
ShouldRetry(retry) == is_retry /\ ~retry

\* json_.get("code", None) in retry_err_code
CodeRetryable(r) == \E n \in r.code : n \in retry_err_code

\* http.py:166-171  the JSON body is inspected and does not ask for a retry
JsonRefusesRetry(r) ==
    /\ r.ctype = JsonType
    /\ (~r.is_dict \/ ~CodeRetryable(r))

\* "return resp": the coroutine ends, the task leaves its slot
Returned(t, w) ==
    [t EXCEPT !.st = "done", !.slot = FALSE, !.flying = FALSE,
              !.ret = Len(t.resps), !.warns = t.warns + w]

ReissueOutsideSlot(t, w) ==
    [t EXCEPT !.slot = FALSE, !.flying = TRUE, !.retry = TRUE,
              !.nreq = t.nreq + 1, !.warns = t.warns + w]

\* http.py:174  return await self._request(method, url, True, **kwargs):
\* the second request is awaited inside the running task
Reissue(t, w) ==
    [t EXCEPT !.flying = TRUE, !.retry = TRUE,
              !.nreq = t.nreq + 1, !.warns = t.warns + w]

\* Session._request from the arrival of the response r to its return or to
\* the next request being in flight
AfterResponse(t, r) ==
    LET t1 == [t EXCEPT !.resps = Append(t.resps, r), !.flying = FALSE]
        w1 == IF LogsFirst(t.retry) THEN 1 ELSE 0
    IN  IF r.ok THEN Returned(t1, 0)
        ELSE IF ShouldRetry(t.retry)
             THEN IF JsonRefusesRetry(r)
                  THEN Returned(t1, w1 + 1)
                  ELSE Reissue(t1, w1)
             ELSE Returned(t1, w1)

Respond(c) ==
    /\ task[c].flying
    /\ task[c].nreq < MaxReq
    /\ \E r \in Responses : task' = [task EXCEPT ![c] = AfterResponse(task[c], r)]
    /\ UNCHANGED <<is_retry, is_log_error, max_concurrency, gwvars>>

(***************************************************************************)
(* The gateway connection, qg_bot_ws.py.                                   *)
(*                                                                         *)
(* The bot is constructed with every callback registered (on_start and the *)
(* event callbacks are not None) and with intents subscribed.              *)
(***************************************************************************)
\* starter: re_connect = False if reconnect_times >= 20
ResumeLimit == 20

\* connection attempts without a READY or RESUMED that Spec follows
MaxAttempts == 3
\* the same for LongSpec, which follows the counter past ResumeLimit
LongAttempts == 21
\* sequence numbers carried by dispatch frames
MaxSeq == 2
\* identity responses drawn for one get_robot_info call
MaxIdReq == 3
\* callbacks waiting in the worker pool or on the event loop
MaxPending == 1
\* cap of the fetch_calls / start_calls counters
MaxCount == 2

\* self.s = None
NoSeq == 0
\* self.session_id = 0
NoSession == 0
\* the session ids the gateway hands out (opaque)
SessionIds == {1, 2}

Inc(n) == IF n < MaxCount THEN n + 1 ELSE n

(***************************************************************************)
(* Inbound text frames. form is "ok" for a frame that decodes and carries  *)
(* the fields its op needs, "not_json" for a text that json.loads rejects, *)
(* "no_t" for an op 0 frame without "t". sq is data["s"] (NoSeq: no "s"),  *)
(* sid is d.session_id, hbi is d.heartbeat_interval, has_id tells whether  *)
(* the frame has an "id".                                                  *)
(***************************************************************************)
Frame(form, op, t, sq, sid, hbi, has_id) ==
    [form |-> form, op |-> op, t |-> t, sq |-> sq, sid |-> sid, hbi |-> hbi,
     has_id |-> has_id, author |-> "", op_user |-> ""]

NoFrame    == Frame("none", 0, "", NoSeq, NoSession, 0, FALSE)
CloseMsg   == Frame("close", 0, "", NoSeq, NoSession, 0, FALSE)
\* a TEXT message whose data is never read (connect line 244)
TextMsg    == Frame("text", 0, "", NoSeq, NoSession, 0, FALSE)
AckFrame   == Frame("ok", 11, "", NoSeq, NoSession, 0, FALSE)
Op9Frame   == Frame("ok", 9, "", NoSeq, NoSession, 0, FALSE)
NotJson    == Frame("not_json", 0, "", NoSeq, NoSession, 0, FALSE)

HelloFrames   == {Frame("ok", 10, "", NoSeq, NoSession, i, FALSE) : i \in {30000, 41250}}
ReadyFrames   == {Frame("ok", 0, "READY", q, i, 0, TRUE) : q \in 1..MaxSeq, i \in SessionIds}
ResumedFrames == {Frame("ok", 0, "RESUMED", q, NoSession, 0, TRUE) : q \in 0..MaxSeq}
NoTFrames     == {Frame("no_t", 0, "", q, NoSession, 0, TRUE) : q \in 1..MaxSeq}
BadFrames     == {NotJson} \cup NoTFrames

\* the frames LongSpec draws from: one of each kind
LongHello   == {Frame("ok", 10, "", NoSeq, NoSession, 30000, FALSE)}
LongReady   == {Frame("ok", 0, "READY", 1, 1, 0, TRUE)}
LongResumed == {Frame("ok", 0, "RESUMED", 1, NoSession, 0, TRUE)}
LongBad     == {NotJson}
EventFrames   ==
    {Frame("ok", 0, t, q, NoSession, 0, h) :
        t \in {"GUILD_CREATE", "NOT_AN_EVENT"}, q \in 1..MaxSeq, h \in BOOLEAN}

\* the event types data_process names itself (lines 154, 162)
MessageTypes == {"AT_MESSAGE_CREATE", "MESSAGE_CREATE"}
DeleteTypes  == {"MESSAGE_DELETE", "PUBLIC_MESSAGE_DELETE", "DIRECT_MESSAGE_DELETE"}

\* a message-delete frame: author is d.message.author.id, op_user is d.op_user.id
DeleteFrame(t, h, a, u) ==
    [Frame("ok", 0, t, 1, NoSession, 0, h) EXCEPT !.author = a, !.op_user = u]

\* the application events EventSpec draws from, each with and without "id"
MsgEventFrames ==
    {DeleteFrame(t, h, "user_1", u) :
        t \in DeleteTypes, h \in BOOLEAN, u \in {"user_1", "user_2"}}
    \cup {Frame("ok", 0, t, 1, NoSession, 0, h) :
            t \in MessageTypes \cup {"GUILD_CREATE"}, h \in BOOLEAN}

\* the keys of self.events
events == {"GUILD_CREATE", "GUILD_UPDATE", "GUILD_DELETE", "CHANNEL_CREATE",
           "CHANNEL_UPDATE", "CHANNEL_DELETE", "GUILD_MEMBER_ADD",
           "GUILD_MEMBER_UPDATE", "GUILD_MEMBER_REMOVE", "MESSAGE_REACTION_ADD",
           "MESSAGE_REACTION_REMOVE", "INTERACTION_CREATE", "MESSAGE_AUDIT_PASS",
           "MESSAGE_AUDIT_REJECT", "AUDIO_START", "AUDIO_FINISH", "AUDIO_ON_MIC",
           "AUDIO_OFF_MIC"}

\* the constructor arguments that go into the handshake frames
BotArgs == [bot_id |-> "bot_id", bot_token |-> "bot_token", intents |-> 513,
            shard_no |-> 0, total_shard |-> 1]

\* f"Bot {self.bot_id}.{self.bot_token}"
Token == "Bot " \o BotArgs.bot_id \o "." \o BotArgs.bot_token

\* outbound frames: connect_paras (send_connect), reconnect_paras
\* (send_reconnect) and the heartbeat frame (heart)
Identify ==
    [op |-> 2,
     d |-> [token |-> Token, intents |-> BotArgs.intents,
            shard |-> <<BotArgs.shard_no, BotArgs.total_shard>>]]
Resume(sid, sq) ==
    [op |-> 6, d |-> [token |-> Token, session_id |-> sid, seq |-> sq]]
Heartbeat(sq) == [op |-> 1, d |-> sq]

\* main: if "s" in data: self.s = data["s"]
NewS(f) == IF f.sq # NoSeq THEN f.sq ELSE s

\* send_connect whatever self.re_connect is
HandshakeIdentifyOnly(f) == Identify

\* send_connect / send_reconnect, chosen by self.re_connect (main, op 9 and op 10)
Handshake(f) == IF ~re_connect THEN Identify ELSE Resume(session_id, NewS(f))

\* the heartbeat task left as it is
CancelSkipped(h) == h

(***************************************************************************)
(* heartbeat.task is the state of the task self.heartbeat refers to        *)
(* ("None" before the first one), heartbeat.live the number of unfinished  *)
(* tasks named heartbeat_task, which is what start_heartbeat looks at in   *)
(* all_tasks(). A cancelled task is finished before the next attempt       *)
(* receives anything: its wake-up is queued ahead of the new connection.   *)
(***************************************************************************)
NoHeartbeat == [task |-> "None", live |-> 0]

\* if self.heartbeat is not None and not self.heartbeat.cancelled(): self.heartbeat.cancel()
Cancel(h) ==
    IF h.task = "active" THEN [task |-> "cancelled", live |-> h.live - 1] ELSE h

\* a task is created whether or not one named heartbeat_task is alive
start_heartbeat_unchecked(h) == [task |-> "active", live |-> h.live + 1]

\* start_heartbeat: a task is created unless one named heartbeat_task is alive
start_heartbeat(h) ==
    IF h.live > 0 THEN h ELSE [task |-> "active", live |-> h.live + 1]

\* where starter goes on when connect() returns: the first call (line 267) is
\* followed by the while test, a call in the loop by t_sleep(5)
AfterConnect == IF in_loop THEN "sleep" ELSE "while"

NextReConnectAbove(n) == IF n > ResumeLimit THEN FALSE ELSE TRUE

\* starter: self.re_connect = False if self.reconnect_times >= 20 else True
NextReConnect(n) == IF n >= ResumeLimit THEN FALSE ELSE TRUE

\* get_robot_info line 129: return self.get_robot_info(retry)
RetryArg(retry) == retry

(***************************************************************************)
(* get_robot_info(retry) against the identity responses rs still to come:  *)
(* "id" has an id, "noid" lacks it, "err" makes session.get or .json()     *)
(* raise. When the drawn responses are used up and the call recurses       *)
(* again, the responses keep lacking an id until the interpreter raises    *)
(* RecursionError. n counts the requests made.                             *)
(***************************************************************************)
RECURSIVE get_robot_info(_, _, _)
get_robot_info(rs, retry, n) ==
    IF rs = <<>> THEN [res |-> "raise", reqs |-> n]
    ELSE IF Head(rs) = "err" THEN [res |-> "raise", reqs |-> n + 1]
    ELSE IF Head(rs) = "noid"
         THEN IF ~retry
              THEN get_robot_info(Tail(rs), RetryArg(retry), n + 1)
              ELSE [res |-> "exit", reqs |-> n + 1]
    ELSE [res |-> "ok", reqs |-> n + 1]

\* the response sequences one call can consume: every response before the
\* last lacks an id (a call never reads past an "id" or an "err")
IdResponses ==
    {rs \in UNION {[1..n -> {"id", "noid", "err"}] : n \in 1..MaxIdReq} :
        \A i \in 1..(Len(rs) - 1) : rs[i] = "noid"}

Quiet == in_frame' = NoFrame /\ out' = <<>> /\ id_reqs' = 0

\* ---- BotWs.starter and the start of BotWs.connect ----

\* connect(): self.reconnect_times += 1, then ws_connect either opens the
\* channel or raises (caught by connect's except Exception, which cancels
\* the heartbeat and returns).
Connect(cap, loop, opens) ==
    /\ reconnect_times < cap
    /\ reconnect_times' = reconnect_times + 1
    /\ in_loop' = loop
    /\ consec9' = FALSE
    /\ IF opens
       THEN pc' = "recv" /\ heartbeat' = heartbeat
       ELSE pc' = (IF loop THEN "sleep" ELSE "while") /\ heartbeat' = Cancel(heartbeat)
    /\ Quiet
    /\ UNCHANGED <<httpvars, cfgvars, running, session_id, s, flag, robot, op9_flag,
                   heartbeat_time, cb, pool, async_tasks, fetch_calls, start_calls>>

\* starter line 267: self.loop.run_until_complete(self.connect())
StartFirst(cap) ==
    /\ pc = "first"
    /\ \E opens \in BOOLEAN : Connect(cap, FALSE, opens)
    /\ UNCHANGED <<re_connect, at_limit>>

\* starter lines 268-271: while self.running: re_connect = ...; connect()
LoopIter(cap) ==
    /\ pc = "while"
    /\ running
    /\ re_connect' = NextReConnect(reconnect_times)
    /\ at_limit' = (reconnect_times >= ResumeLimit)
    /\ \E opens \in BOOLEAN : Connect(cap, TRUE, opens)

\* starter line 268 with self.running unset: starter returns
LoopExit ==
    /\ pc = "while"
    /\ ~running
    /\ pc' = "stopped"
    /\ Quiet
    /\ UNCHANGED <<httpvars, cfgvars, in_loop, botvars, cb, pool, async_tasks,
                   consec9, at_limit, fetch_calls, start_calls>>

\* starter line 274: t_sleep(5)
Sleep ==
    /\ pc = "sleep"
    /\ pc' = "while"
    /\ Quiet
    /\ UNCHANGED <<httpvars, cfgvars, in_loop, botvars, cb, pool, async_tasks,
                   consec9, at_limit, fetch_calls, start_calls>>

\* self.running is set from outside (another thread)
Stop ==
    /\ running
    /\ pc \notin {"stopped", "exited"}
    /\ running' = FALSE
    /\ Quiet
    /\ UNCHANGED <<httpvars, cfgvars, pc, in_loop, re_connect, reconnect_times,
                   session_id, s, flag, robot, op9_flag, heartbeat, heartbeat_time,
                   cb, pool, async_tasks, consec9, at_limit,
                   fetch_calls, start_calls>>

\* ---- BotWs.connect: the receive loop ----

\* a TEXT message while self.running is unset (connect lines 244-249): the
\* heartbeat is cancelled, the channel closed, the frame is not handed to main
StopOnText ==
    /\ id_reqs' = 0
    /\ pc = "recv"
    /\ ~running
    /\ in_frame' = TextMsg
    /\ out' = <<>>
    /\ heartbeat' = Cancel(heartbeat)
    /\ pc' = AfterConnect
    /\ UNCHANGED <<httpvars, cfgvars, in_loop, running, re_connect, reconnect_times,
                   session_id, s, flag, robot, op9_flag, heartbeat_time, cb, pool,
                   async_tasks, consec9, at_limit, fetch_calls, start_calls>>

\* a CLOSE, CLOSED or ERROR message (connect lines 251-257). With running
\* set: re_connect = True, the heartbeat is cancelled, connect returns. With
\* running unset the branch does nothing, self.ws.closed ends the while loop
\* and connect returns.
RecvClose ==
    /\ id_reqs' = 0
    /\ pc = "recv"
    /\ in_frame' = CloseMsg
    /\ out' = <<>>
    /\ IF running
       THEN re_connect' = TRUE /\ heartbeat' = Cancel(heartbeat)
       ELSE UNCHANGED <<re_connect, heartbeat>>
    /\ pc' = AfterConnect
    /\ UNCHANGED <<httpvars, cfgvars, in_loop, running, reconnect_times, session_id,
                   s, flag, robot, op9_flag, heartbeat_time, cb, pool, async_tasks,
                   consec9, at_limit, fetch_calls, start_calls>>

\* an exception leaves main and reaches connect's "except Exception"
\* (lines 258-264): the heartbeat is cancelled and connect returns
Raised(h) ==
    /\ heartbeat' = Cancel(h)
    /\ pc' = AfterConnect

\* a text that json.loads rejects, or an op 0 frame without "t": main raises
\* JSONDecodeError at line 191, or KeyError at line 215 after "s" was stored
BadFrame(F) ==
    /\ id_reqs' = 0
    /\ pc = "recv"
    /\ running
    /\ \E f \in F :
         /\ in_frame' = f
         /\ s' = (IF f.form = "no_t" THEN NewS(f) ELSE s)
    /\ out' = <<>>
    /\ Raised(heartbeat)
    /\ consec9' = FALSE
    /\ UNCHANGED <<httpvars, cfgvars, in_loop, running, re_connect, reconnect_times,
                   session_id, flag, robot, op9_flag, heartbeat_time, cb, pool,
                   async_tasks, at_limit, fetch_calls, start_calls>>

\* main, op == 11
Ack ==
    /\ id_reqs' = 0
    /\ pc = "recv"
    /\ running
    /\ in_frame' = AckFrame
    /\ out' = <<>>
    /\ consec9' = FALSE
    /\ UNCHANGED <<httpvars, cfgvars, pc, in_loop, botvars, cb, pool, async_tasks,
                   at_limit, fetch_calls, start_calls>>

\* main, op == 9 (lines 197-207): the first op 9 sets op9_flag and sends the
\* handshake again; with op9_flag set main calls exit(), and SystemExit is
\* not an Exception, so it leaves connect and starter
InvalidSession ==
    /\ id_reqs' = 0
    /\ pc = "recv"
    /\ running
    /\ in_frame' = Op9Frame
    /\ consec9' = TRUE
    /\ IF ~op9_flag
       THEN /\ op9_flag' = TRUE
            /\ out' = <<Handshake(Op9Frame)>>
            /\ pc' = pc
       ELSE /\ op9_flag' = op9_flag
            /\ out' = <<>>
            /\ pc' = "exited"
    /\ UNCHANGED <<httpvars, cfgvars, in_loop, running, re_connect, reconnect_times,
                   session_id, s, flag, robot, heartbeat, heartbeat_time, cb, pool,
                   async_tasks, at_limit, fetch_calls, start_calls>>

\* heartbeat_time = float(int(data["d"]["heartbeat_interval"]) * 0.001),
\* kept here in milliseconds
HeartbeatTime(hbi) == hbi

\* main, op == 10 (lines 208-213)
Hello(F) ==
    /\ id_reqs' = 0
    /\ pc = "recv"
    /\ running
    /\ \E f \in F :
         /\ in_frame' = f
         /\ heartbeat_time' = HeartbeatTime(f.hbi)
         /\ out' = <<Handshake(f)>>
    /\ consec9' = FALSE
    /\ UNCHANGED <<httpvars, cfgvars, pc, in_loop, running, re_connect,
                   reconnect_times, session_id, s, flag, robot, op9_flag, heartbeat,
                   cb, pool, async_tasks, at_limit, fetch_calls, start_calls>>

FirstReadyAlways(fl) == TRUE

\* main line 220: if not self.flag
FirstReady(fl) == ~fl

\* main, op == 0 and t == "READY" (lines 215-228). get_robot_info is a
\* blocking call, so the handler runs without the event loop taking a turn.
Ready(F) ==
    /\ pc = "recv"
    /\ running
    /\ \E f \in F :
         /\ in_frame' = f
         /\ s' = NewS(f)
         /\ session_id' = f.sid
    /\ reconnect_times' = 0
    /\ out' = <<>>
    /\ consec9' = FALSE
    /\ IF FirstReady(flag)
       THEN /\ flag' = TRUE
            /\ fetch_calls' = Inc(fetch_calls)
            /\ \E rs \in IdResponses :
                 LET g == get_robot_info(rs, FALSE, 0) IN
                 /\ id_reqs' = g.reqs
                 /\ CASE g.res = "ok" ->
                           /\ robot' = "bot"
                           /\ heartbeat' = start_heartbeat(heartbeat)
                           /\ start_calls' = Inc(start_calls)
                           /\ IF is_async
                              THEN /\ async_tasks < MaxPending
                                   /\ async_tasks' = async_tasks + 1
                                   /\ UNCHANGED <<pc, cb>>
                              ELSE /\ pc' = "callback"
                                   /\ cb' = "on_start"
                                   /\ UNCHANGED async_tasks
                      [] g.res = "raise" ->
                           /\ Raised(start_heartbeat(heartbeat))
                           /\ UNCHANGED <<robot, start_calls, async_tasks, cb>>
                      [] g.res = "exit" ->
                           /\ pc' = "exited"
                           /\ heartbeat' = start_heartbeat(heartbeat)
                           /\ UNCHANGED <<robot, start_calls, async_tasks, cb>>
       ELSE /\ heartbeat' = start_heartbeat(heartbeat)
            /\ id_reqs' = 0
            /\ UNCHANGED <<flag, robot, fetch_calls, start_calls, pc, cb,
                           async_tasks>>
    /\ UNCHANGED <<httpvars, cfgvars, in_loop, running, re_connect, op9_flag,
                   heartbeat_time, pool, at_limit>>

\* main, op == 0 and t == "RESUMED" (lines 229-232)
Resumed(F) ==
    /\ id_reqs' = 0
    /\ pc = "recv"
    /\ running
    /\ \E f \in F :
         /\ in_frame' = f
         /\ s' = NewS(f)
    /\ reconnect_times' = 0
    /\ heartbeat' = start_heartbeat(heartbeat)
    /\ out' = <<>>
    /\ consec9' = FALSE
    /\ UNCHANGED <<httpvars, cfgvars, pc, in_loop, running, re_connect, session_id,
                   flag, robot, op9_flag, heartbeat_time, cb, pool, async_tasks,
                   at_limit, fetch_calls, start_calls>>

(***************************************************************************)
(* data_process and distribute for an event frame f. exception_processor   *)
(* (qg_botsdk/_utils.py) is not under src/: by the spec an error raised    *)
(* under it "is caught at the dispatch boundary, logged, and never         *)
(* propagates to the connection's receive loop".                           *)
(*   "unknown"  : t is not a known event type, a warning is logged         *)
(*   "filtered" : a delete by the message's author, returned at line 167   *)
(*   "error"    : distribute raised KeyError at data["id"], caught          *)
(*   "dispatch" : distribute schedules the registered callback             *)
(***************************************************************************)
distribute(f) == IF ~f.has_id THEN "error" ELSE "dispatch"

data_process(f) ==
    IF f.t \in MessageTypes
    THEN \* line 158: self.robot.id raises AttributeError while robot is None
         IF msg_treat /\ robot = "None" THEN "error" ELSE distribute(f)
    ELSE IF f.t \in DeleteTypes
    THEN IF is_filter_self /\ f.op_user = f.author THEN "filtered" ELSE distribute(f)
    ELSE IF f.t \in events THEN distribute(f)
    ELSE "unknown"

\* distribute line 148: self.threads.submit(self.start_task(function, ...)):
\* the argument is evaluated first, so start_task runs the callback in the
\* receive loop, and its return value None is what the pool is given
Submitted == "None"

\* main, op == 0 and any other t (line 234)
Event(F) ==
    /\ id_reqs' = 0
    /\ pc = "recv"
    /\ running
    /\ \E f \in F :
         /\ in_frame' = f
         /\ s' = NewS(f)
         /\ IF data_process(f) = "dispatch"
            THEN IF is_async
                 THEN \* self.loop.create_task(self.async_start_task(function, ...))
                      /\ async_tasks < MaxPending
                      /\ async_tasks' = async_tasks + 1
                      /\ UNCHANGED <<pc, cb>>
                 ELSE /\ Len(pool) < MaxPending
                      /\ pc' = "callback"
                      /\ cb' = "event"
                      /\ UNCHANGED async_tasks
            ELSE UNCHANGED <<pc, cb, async_tasks>>
    /\ out' = <<>>
    /\ consec9' = FALSE
    /\ UNCHANGED <<httpvars, cfgvars, in_loop, running, re_connect, reconnect_times,
                   session_id, flag, robot, op9_flag, heartbeat, heartbeat_time, pool,
                   at_limit, fetch_calls, start_calls>>

\* The synchronous callback the receive loop is inside of returns or raises.
\* An event callback runs under start_task (exception_processor): either way
\* submit(None) follows and main returns. on_start_function is called bare
\* at line 228: its exception reaches connect's except Exception.
CallbackReturn ==
    /\ pc = "callback"
    /\ \E raises \in BOOLEAN :
         IF cb = "on_start" /\ raises
         THEN /\ Raised(heartbeat)
              /\ pool' = pool
         ELSE /\ pc' = "recv"
              /\ heartbeat' = heartbeat
              /\ pool' = (IF cb = "event" THEN Append(pool, Submitted) ELSE pool)
    /\ cb' = "none"
    /\ Quiet
    /\ UNCHANGED <<httpvars, cfgvars, in_loop, running, re_connect, reconnect_times,
                   session_id, s, flag, robot, op9_flag, heartbeat_time, async_tasks,
                   consec9, at_limit, fetch_calls, start_calls>>

\* a worker thread takes the oldest item of the pool and calls it
PoolRun ==
    /\ pool # <<>>
    /\ pc # "exited"
    /\ pool' = Tail(pool)
    /\ Quiet
    /\ UNCHANGED <<httpvars, cfgvars, pc, in_loop, botvars, cb, async_tasks,
                   consec9, at_limit, fetch_calls, start_calls>>

\* the event loop runs one of the callback tasks it was given
AsyncTaskRun ==
    /\ pc = "recv"
    /\ async_tasks > 0
    /\ async_tasks' = async_tasks - 1
    /\ Quiet
    /\ UNCHANGED <<httpvars, cfgvars, pc, in_loop, botvars, cb, pool,
                   consec9, at_limit, fetch_calls, start_calls>>

\* heart(): after its sleep the heartbeat task sends op 1 with self.s
HeartTick ==
    /\ id_reqs' = 0
    /\ pc = "recv"
    /\ heartbeat.live > 0
    /\ in_frame' = NoFrame
    /\ out' = <<Heartbeat(s)>>
    /\ UNCHANGED <<httpvars, cfgvars, pc, in_loop, botvars, cb, pool, async_tasks,
                   consec9, at_limit, fetch_calls, start_calls>>

\* BotWs.__init__ lines 62-72, before starter runs
GwStart ==
    /\ pc = "first"
    /\ in_loop = FALSE
    /\ running = TRUE
    /\ re_connect = FALSE
    /\ reconnect_times = 0
    /\ session_id = NoSession
    /\ s = NoSeq
    /\ flag = FALSE
    /\ robot = "None"
    /\ op9_flag = FALSE
    /\ heartbeat = NoHeartbeat
    /\ heartbeat_time = 0
    /\ cb = "none"
    /\ pool = <<>>
    /\ async_tasks = 0
    /\ in_frame = NoFrame
    /\ out = <<>>
    /\ consec9 = FALSE
    /\ at_limit = FALSE
    /\ fetch_calls = 0
    /\ start_calls = 0
    /\ id_reqs = 0

\* Session.__init__
HttpStart ==
    /\ task = [c \in Calls |-> IdleTask]

Init ==
    /\ is_async \in BOOLEAN
    /\ is_filter_self = TRUE
    /\ msg_treat = TRUE
    /\ GwStart
    /\ is_retry = TRUE
    /\ is_log_error = TRUE
    /\ max_concurrency = 1
    /\ HttpStart

Next ==
    \/ StartFirst(MaxAttempts)
    \/ LoopIter(MaxAttempts)
    \/ LoopExit
    \/ Sleep
    \/ Stop
    \/ StopOnText
    \/ RecvClose
    \/ BadFrame(BadFrames)
    \/ Ack
    \/ InvalidSession
    \/ Hello(HelloFrames)
    \/ Ready(ReadyFrames)
    \/ Resumed(ResumedFrames)
    \/ Event(EventFrames)
    \/ CallbackReturn
    \/ PoolRun
    \/ AsyncTaskRun
    \/ HeartTick

Spec == Init /\ [][Next]_vars

(***************************************************************************)
(* LongSpec follows reconnect_times past ResumeLimit. The gateway sends    *)
(* one frame of each control kind and no application events.               *)
(***************************************************************************)
LongNext ==
    \/ StartFirst(LongAttempts)
    \/ LoopIter(LongAttempts)
    \/ LoopExit
    \/ Sleep
    \/ Stop
    \/ StopOnText
    \/ RecvClose
    \/ BadFrame(LongBad)
    \/ Ack
    \/ InvalidSession
    \/ Hello(LongHello)
    \/ Ready(LongReady)
    \/ Resumed(LongResumed)
    \/ CallbackReturn
    \/ AsyncTaskRun
    \/ HeartTick

LongSpec == Init /\ [][LongNext]_vars

(***************************************************************************)
(* EventSpec follows the application events data_process treats by name,   *)
(* under every setting of is_async, is_filter_self and msg_treat. The      *)
(* gateway sends one frame of each control kind.                           *)
(***************************************************************************)
EventInit ==
    /\ is_async \in BOOLEAN
    /\ is_filter_self \in BOOLEAN
    /\ msg_treat \in BOOLEAN
    /\ GwStart
    /\ is_retry = TRUE
    /\ is_log_error = TRUE
    /\ max_concurrency = 1
    /\ HttpStart

EventNext ==
    \/ StartFirst(MaxAttempts)
    \/ LoopIter(MaxAttempts)
    \/ LoopExit
    \/ Sleep
    \/ Stop
    \/ StopOnText
    \/ RecvClose
    \/ BadFrame(LongBad)
    \/ Ack
    \/ InvalidSession
    \/ Hello(LongHello)
    \/ Ready(LongReady)
    \/ Resumed(LongResumed)
    \/ Event(MsgEventFrames)
    \/ CallbackReturn
    \/ PoolRun
    \/ AsyncTaskRun
    \/ HeartTick

EventSpec == EventInit /\ [][EventNext]_vars

HttpInit ==
    /\ is_retry \in BOOLEAN
    /\ is_log_error \in BOOLEAN
    /\ max_concurrency \in 1..MaxN
    /\ HttpStart
    /\ is_async = FALSE
    /\ is_filter_self = TRUE
    /\ msg_treat = TRUE
    /\ GwStart

HttpNext ==
    \/ \E c \in Calls : Submit(c)
    \/ \E c \in Calls : StartTask(c)
    \/ \E c \in Calls : Respond(c)

HttpSpec == HttpInit /\ [][HttpNext]_vars

(***************************************************************************)
(* The claims.                                                             *)
(***************************************************************************)

\* a failed response whose JSON body is a mapping with a retryable code
RetryableJson(r) == ~r.ok /\ r.ctype = JsonType /\ r.is_dict /\ CodeRetryable(r)

\* C1 (HttpSpec): at every instant at most max_concurrency submitted tasks are
\* executing; a request in flight, a retry included, belongs to a task that
\* holds its slot, so at most max_concurrency requests are in flight.
C1_BoundedConcurrency ==
    /\ Cardinality(InSlot) <= max_concurrency
    /\ Cardinality(InFlight) <= max_concurrency
    /\ \A c \in Calls : task[c].flying => task[c].slot

\* every slot is taken, one of the requests in flight is a retry, and another
\* submitted call waits in the queue
C1_Witness ==
    /\ Cardinality(InFlight) = max_concurrency
    /\ \E c \in Calls : task[c].flying /\ task[c].retry
    /\ \E c \in Calls : task[c].st = "queued"

\* C2 (HttpSpec): with retry enabled a call whose first response is a failure
\* with a retryable JSON code is re-issued exactly once; the response of the
\* re-issue is what the caller gets, whatever it is; no call ever issues more
\* than two requests.
C2_RetriedOnce ==
    \A c \in Calls :
        LET t == task[c] IN
        /\ t.nreq <= 2
        /\ (is_retry /\ Len(t.resps) >= 1 /\ RetryableJson(t.resps[1])) => t.nreq = 2
        /\ Len(t.resps) = 2 => (t.st = "done" /\ t.ret = 2 /\ ~t.flying)

\* a call whose request and re-issue both failed with a retryable code has
\* returned
C2_Witness ==
    \E c \in Calls :
        /\ task[c].st = "done"
        /\ Len(task[c].resps) = 2
        /\ RetryableJson(task[c].resps[1])
        /\ RetryableJson(task[c].resps[2])

\* C3 (HttpSpec), as claimed: a call whose first response is a failure that
\* does not match the retryable set (not JSON, not a mapping, code absent or
\* not retryable) makes exactly one request and returns that response.
C3_Original ==
    \A c \in Calls :
        LET t == task[c] IN
        (Len(t.resps) >= 1 /\ ~t.resps[1].ok /\ ~RetryableJson(t.resps[1]))
            => (t.nreq = 1 /\ t.st = "done" /\ t.ret = 1)

\* C4 (Spec), as claimed: an op 9 frame ends the process exactly when the
\* previous frame of the same connection attempt was an op 9 too; otherwise
\* the receive loop goes on and identify (re_connect unset) or resume
\* (re_connect set) is sent again.
C4_Original ==
    [][in_frame' = Op9Frame =>
          IF consec9
          THEN pc' = "exited"
          ELSE /\ pc' = "recv"
               /\ out' = <<IF re_connect THEN Resume(session_id, s) ELSE Identify>>]_vars

\* a step in which connect() is entered
AttemptStarts ==
    \/ pc = "first" /\ pc' # "first"
    \/ pc = "while" /\ pc' \in {"recv", "sleep"}

\* C5 (LongSpec): reconnect_times changes only by being set to 0 in the
\* handling of READY or RESUMED, which always does so, and by being
\* incremented once when a connection attempt starts; an attempt the loop
\* starts with the counter at 20 or more has re_connect unset and answers
\* hello with identify, one started with the counter below 20 has re_connect
\* set and answers hello with resume.
C5_CounterAndResume ==
    [][/\ reconnect_times' # reconnect_times =>
            \/ reconnect_times' = 0 /\ in_frame'.t \in {"READY", "RESUMED"}
            \/ reconnect_times' = reconnect_times + 1 /\ AttemptStarts
       /\ in_frame'.t \in {"READY", "RESUMED"} => reconnect_times' = 0
       /\ AttemptStarts => reconnect_times' = reconnect_times + 1
       /\ (pc = "while" /\ AttemptStarts) =>
            re_connect' = (reconnect_times < ResumeLimit)
       /\ (in_frame'.op = 10 /\ in_loop) =>
            out' = <<IF at_limit THEN Identify ELSE Resume(session_id, s)>>]_vars

\* the loop started an attempt with the counter at 20 or more, and hello was
\* answered with identify
C5_Witness ==
    /\ in_loop
    /\ at_limit
    /\ in_frame.op = 10
    /\ out = <<Identify>>

C7_Original == id_reqs <= 2

\* C8 (Spec), as claimed: after a text frame that is not JSON, or an op 0
\* frame without "t", the same connection attempt goes on receiving.
C8_Original ==
    [][in_frame'.form \in {"not_json", "no_t"} => pc' = "recv"]_vars

\* C9 (Spec), as claimed: once connect() has been left, on whatever way, no
\* heartbeat task is active.
C9_Original ==
    pc \in {"sleep", "while", "stopped", "exited"} => heartbeat.live = 0

\* C10 (Spec), as claimed: a synchronous event callback is handed to the
\* worker pool and the receive loop is never inside it.
C10_Original ==
    /\ cb # "event"
    /\ \A i \in 1..Len(pool) : pool[i] # "None"

\* C11 (Spec): every hello frame with heartbeat_interval I sets the heartbeat
\* period to I milliseconds (I/1000 seconds) and is answered with exactly one
\* frame: identify (op 2 with token, intents and [shard_no, total_shard]) when
\* re_connect is unset, resume (op 6 with token, the stored session_id and
\* the last sequence number) when it is set.
C11_HelloHandshake ==
    [][in_frame'.op = 10 =>
          /\ heartbeat_time' = in_frame'.hbi
          /\ Len(out') = 1
          /\ out'[1] =
               IF re_connect
               THEN [op |-> 6,
                     d |-> [token |-> "Bot bot_id.bot_token",
                            session_id |-> session_id, seq |-> s]]
               ELSE [op |-> 2,
                     d |-> [token |-> "Bot bot_id.bot_token",
                            intents |-> BotArgs.intents,
                            shard |-> <<BotArgs.shard_no, BotArgs.total_shard>>]]]_vars

\* a hello of a later attempt was answered with a resume that carries the
\* session of an earlier READY and a sequence number received before
C11_Witness ==
    /\ in_frame.op = 10
    /\ in_frame.hbi = 41250
    /\ heartbeat_time = 41250
    /\ re_connect
    /\ Len(out) = 1
    /\ out[1].op = 6
    /\ out[1].d.session_id \in SessionIds
    /\ out[1].d.seq # NoSeq

\* a step that hands one event callback on: as a task of the event loop, or,
\* with synchronous callbacks, by entering it through start_task
SchedulesOnce ==
    IF is_async
    THEN async_tasks' = async_tasks + 1 /\ cb' = cb
    ELSE cb' = "event" /\ cb = "none" /\ async_tasks' = async_tasks

\* C12 (EventSpec), as claimed: with is_filter_self set, a message-delete
\* event whose author id equals the acting user's id is dropped without any
\* dispatch, and every other message-delete event hands the delete callback
\* on exactly once.
C12_Original ==
    [][(in_frame'.t \in DeleteTypes /\ is_filter_self) =>
          IF in_frame'.op_user = in_frame'.author
          THEN UNCHANGED <<pc, cb, async_tasks, pool>>
          ELSE SchedulesOnce]_vars

\* C13 (Spec), as claimed: while a connection attempt is receiving, no step
\* lowers the stored sequence number s, and a heartbeat frame carries the s
\* stored when it is sent.
C13_Original ==
    [][/\ pc = "recv" => s' >= s
       /\ \A i \in 1..Len(out') : out'[i].op = 1 => out'[i].d = s']_vars

\* C14 (Spec), as claimed: an attempt the loop starts comes after t_sleep(5).
\* At the loop head in_loop still tells how the attempt that just ended was
\* started: only one started inside the loop was followed by the sleep of
\* line 274.
C14_Original ==
    [][(pc = "while" /\ AttemptStarts) => in_loop]_vars

\* C15 (Spec): with running unset, a step that receives a text frame sends
\* nothing, changes no session state and hands no callback on; it leaves the
\* heartbeat task not active and the attempt returned, its channel closed.
\* With running unset the loop starts no attempt, and starter, once
\* returned, stays returned.
C15_StoppedIsTerminal ==
    [][/\ (~running /\ in_frame'.form \in {"text", "ok", "not_json", "no_t"}) =>
            /\ out' = <<>>
            /\ UNCHANGED <<running, re_connect, reconnect_times, session_id, s,
                           flag, robot, op9_flag, heartbeat_time>>
            /\ UNCHANGED <<cb, pool, async_tasks, fetch_calls, start_calls>>
            /\ heartbeat'.live = 0
            /\ pc = "recv"
            /\ pc' \in {"sleep", "while"}
       /\ (~running /\ pc \in {"sleep", "while"}) => ~AttemptStarts
       /\ pc = "stopped" => (pc' = "stopped" /\ UNCHANGED botvars)]_vars

\* running was unset in an attempt of the loop that had a session and a
\* heartbeat; the text frame that came next ended the attempt
C15_Witness ==
    /\ ~running
    /\ in_frame = TextMsg
    /\ in_loop
    /\ pc = "sleep"
    /\ heartbeat.task = "cancelled"
    /\ session_id \in SessionIds

C17_Original ==
    \A c \in Calls :
        /\ task[c].warns <= 1
        /\ ~is_log_error => task[c].warns = 0

\* C18 (EventSpec), as claimed: an op 0 frame whose type is a key of
\* self.events hands its callback on exactly once, with or without "id".
C18_Original ==
    [][(in_frame'.form = "ok" /\ in_frame'.op = 0 /\ in_frame'.t \in events) =>
          SchedulesOnce]_vars

\* C19 (Spec), as claimed: whenever a resume frame is sent a READY has been
\* handled earlier, and the frame carries the session_id stored from the most
\* recent READY.
C19_Original ==
    \A i \in 1..Len(out) :
        out[i].op = 6 =>
            /\ flag
            /\ out[i].d.session_id = session_id
            /\ session_id # NoSession

\* C20 (EventSpec), as claimed: while the process runs, flag set implies the
\* identity resolved, and no application event is handled with flag set and
\* robot still None.
C20_Original ==
    /\ []((flag /\ pc \notin {"stopped", "exited"}) => robot # "None")
    /\ [][(in_frame'.form = "ok" /\ in_frame'.op = 0
             /\ in_frame'.t \notin {"READY", "RESUMED"} /\ flag) =>
               robot # "None"]_vars

====
